---- MODULE Spec2Model ----
(***************************************************************************)
(* Parking-dataset analysis (src/main.py): the loader load_dataset, the    *)
(* duration helpers, the four reports and the menu loop of main.           *)
(*                                                                         *)
(* Text is kept as TLA+ strings and handled character by character, so     *)
(* str.strip, str.upper, str.split, str.isdigit, int() and                 *)
(* datetime.strptime are modelled by what they do to the characters.       *)
(***************************************************************************)
EXTENDS Integers, Sequences, FiniteSets, TLC

(***************************************************************************)
(* Bounds of the model.                                                    *)
(***************************************************************************)
\* longest input file, in lines
MaxLines == 2
\* longest record list handed directly to a report function
MaxRecs == 4

(***************************************************************************)
(* Program constants (src/main.py lines 5-7).                              *)
(***************************************************************************)
DELIMITER == "|"
MIN_FIELDS == 6

(***************************************************************************)
(* Characters and strings.                                                 *)
(***************************************************************************)
\* the printable ASCII characters in code-point order: 32..95 and 97..126
\* (code point 96, the grave accent, cannot be written in a TLA+ string)
LoASCII == " !\"#$%&'()*+,-./0123456789:;<=>?@ABCDEFGHIJKLMNOPQRSTUVWXYZ[\\]^_"

HiASCII == "abcdefghijklmnopqrstuvwxyz{|}~"

Char(s, i) == SubSeq(s, i, i)

Rest(s) == SubSeq(s, 2, Len(s))

\* code point of a one-character string (ord)
OrdTable ==
    [c \in {Char(LoASCII, i) : i \in 1..Len(LoASCII)}
            \cup {Char(HiASCII, i) : i \in 1..Len(HiASCII)} \cup {"\t", "\n"} |->
       IF c = "\t" THEN 9
       ELSE IF c = "\n" THEN 10
       ELSE IF \E i \in 1..Len(LoASCII) : Char(LoASCII, i) = c
            THEN 31 + (CHOOSE i \in 1..Len(LoASCII) : Char(LoASCII, i) = c)
            ELSE 96 + (CHOOSE i \in 1..Len(HiASCII) : Char(HiASCII, i) = c)]

Ord(c) == OrdTable[c]

IsSpace(c) == c \in {" ", "\t", "\n"}

IsDigit(c) == Ord(c) \in 48..57

DigitVal(c) == Ord(c) - 48

SetMin(S) == CHOOSE x \in S : \A y \in S : x <= y

SetMax(S) == CHOOSE x \in S : \A y \in S : y <= x

\* str.strip(): leading and trailing whitespace removed
strip(s) ==
    LET keep == {i \in 1..Len(s) : ~IsSpace(Char(s, i))}
    IN  IF keep = {} THEN "" ELSE SubSeq(s, SetMin(keep), SetMax(keep))

UpperChar(c) == IF Ord(c) \in 97..122 THEN Char(LoASCII, Ord(c) - 32 - 31) ELSE c

\* str.upper()
RECURSIVE upper(_)
upper(s) == IF s = "" THEN "" ELSE UpperChar(Char(s, 1)) \o upper(Rest(s))

\* str.split(d) for a one-character delimiter d: always at least one field
RECURSIVE split(_, _)
split(s, d) ==
    LET at == {i \in 1..Len(s) : Char(s, i) = d}
    IN  IF at = {} THEN <<s>>
        ELSE LET i == SetMin(at)
             IN  <<SubSeq(s, 1, i - 1)>> \o split(SubSeq(s, i + 1, Len(s)), d)

\* str.isdigit(): non-empty and every character a digit
isdigit(s) == s # "" /\ \A i \in 1..Len(s) : IsDigit(Char(s, i))

\* digits, single underscores allowed between digits (the body of an int literal)
IsDigitRun(s) ==
    /\ s # ""
    /\ IsDigit(Char(s, 1))
    /\ IsDigit(Char(s, Len(s)))
    /\ \A i \in 1..Len(s) : IsDigit(Char(s, i)) \/ Char(s, i) = "_"
    /\ \A i \in 1..(Len(s) - 1) : ~(Char(s, i) = "_" /\ Char(s, i + 1) = "_")

RECURSIVE DigitsValue(_, _)
DigitsValue(s, acc) ==
    IF s = "" THEN acc
    ELSE IF Char(s, 1) = "_" THEN DigitsValue(Rest(s), acc)
    ELSE DigitsValue(Rest(s), acc * 10 + DigitVal(Char(s, 1)))

HasSign(s) == s # "" /\ Char(s, 1) \in {"+", "-"}

\* whether int(s) returns (TRUE) or raises ValueError (FALSE)
int_ok(s) ==
    LET t == strip(s)
    IN  IsDigitRun(IF HasSign(t) THEN Rest(t) ELSE t)

\* the value int(s) returns when int_ok(s)
int(s) ==
    LET t == strip(s)
    IN  IF HasSign(t)
        THEN (IF Char(t, 1) = "-" THEN -1 ELSE 1) * DigitsValue(Rest(t), 0)
        ELSE DigitsValue(t, 0)

(***************************************************************************)
(* datetime.strptime(date, "%Y/%m/%d"): the directive patterns are         *)
(*   %Y  \d\d\d\d                                                          *)
(*   %m  1[0-2]|0[1-9]|[1-9]                                               *)
(*   %d  3[0-1]|[1-2]\d|0[1-9]|[1-9]| [1-9]                                *)
(* the whole string must be consumed, and the triple must be a date of the *)
(* proleptic Gregorian calendar with year >= 1.                            *)
(***************************************************************************)
IsYearField(s) == Len(s) = 4 /\ isdigit(s)

IsMonthField(s) ==
    \/ Len(s) = 2 /\ Char(s, 1) = "1" /\ Ord(Char(s, 2)) \in 48..50
    \/ Len(s) = 2 /\ Char(s, 1) = "0" /\ Ord(Char(s, 2)) \in 49..57
    \/ Len(s) = 1 /\ Ord(Char(s, 1)) \in 49..57

IsDayField(s) ==
    \/ Len(s) = 2 /\ Char(s, 1) = "3" /\ Ord(Char(s, 2)) \in 48..49
    \/ Len(s) = 2 /\ Char(s, 1) \in {"1", "2"} /\ IsDigit(Char(s, 2))
    \/ Len(s) = 2 /\ Char(s, 1) = "0" /\ Ord(Char(s, 2)) \in 49..57
    \/ Len(s) = 1 /\ Ord(Char(s, 1)) \in 49..57
    \/ Len(s) = 2 /\ Char(s, 1) = " " /\ Ord(Char(s, 2)) \in 49..57

IsLeap(y) == y % 4 = 0 /\ (y % 100 # 0 \/ y % 400 = 0)

DaysInMonth(y, m) ==
    IF m = 2 THEN (IF IsLeap(y) THEN 29 ELSE 28)
    ELSE IF m \in {4, 6, 9, 11} THEN 30 ELSE 31

\* the (year, month, day) strptime extracts from a string that matches the layout
DateTriple(date) ==
    LET p == split(date, "/")
    IN  <<DigitsValue(p[1], 0), DigitsValue(p[2], 0), DigitsValue(strip(p[3]), 0)>>

\* whether strptime(date, DATE_FORMAT) returns (TRUE) or raises ValueError (FALSE)
strptime_ok(date) ==
    LET p == split(date, "/")
    IN  /\ Len(p) = 3
        /\ IsYearField(p[1])
        /\ IsMonthField(p[2])
        /\ IsDayField(p[3])
        /\ LET t == DateTriple(date)
           IN  t[1] >= 1 /\ t[3] <= DaysInMonth(t[1], t[2])

\* Python's ordering of str: by code point, a proper prefix first
RECURSIVE StrLess(_, _)
StrLess(a, b) ==
    IF b = "" THEN FALSE
    ELSE IF a = "" THEN TRUE
    ELSE IF Char(a, 1) # Char(b, 1) THEN Ord(Char(a, 1)) < Ord(Char(b, 1))
    ELSE StrLess(Rest(a), Rest(b))

\* sorted(set(...)) of strings: the distinct values in ascending order
RECURSIVE sorted_set(_)
sorted_set(S) ==
    IF S = {} THEN << >>
    ELSE LET m == CHOOSE a \in S : \A b \in S \ {a} : StrLess(a, b)
         IN  <<m>> \o sorted_set(S \ {m})

Range(q) == {q[i] : i \in 1..Len(q)}

(***************************************************************************)
(* load_dataset, one line of the file (the body of the for loop).          *)
(***************************************************************************)
NoRecord == [plate |-> "", date |-> "", checkin |-> 0, checkout |-> 0,
             spot_id |-> "", fee |-> 0]

\* bad_field without the date validation of line 36
bad_field_no_date_check(parts) ==
    IF ~int_ok(strip(parts[3])) THEN "checkin"
    ELSE IF ~int_ok(strip(parts[4])) THEN "checkout"
    ELSE IF ~int_ok(strip(parts[6])) THEN "fee"
    ELSE ""

\* the conversion or validation of lines 30-36 that raises ValueError on the
\* six fields, "" when none does: int() of checkin, checkout and fee run before
\* strptime, so the first of them to raise is the one reported
bad_field(parts) ==
    IF ~int_ok(strip(parts[3])) THEN "checkin"
    ELSE IF ~int_ok(strip(parts[4])) THEN "checkout"
    ELSE IF ~int_ok(strip(parts[6])) THEN "fee"
    ELSE IF ~strptime_ok(strip(parts[2])) THEN "date"
    ELSE ""

\* what one pass of the loop body does with `line`: the record it appends, or
\* the diagnostic it prints
parse_line(line) ==
    LET parts == split(strip(line), DELIMITER)
    IN  IF Len(parts) # MIN_FIELDS
        THEN [ok |-> FALSE, msg |-> "Skipping line", got |-> Len(parts),
              field |-> "", rec |-> NoRecord]
        ELSE LET plate == upper(strip(parts[1]))
                 date == strip(parts[2])
                 spot_id == upper(strip(parts[5]))
                 bad == bad_field(parts)
             IN  IF bad # ""
                 THEN [ok |-> FALSE, msg |-> "Invalid data format", got |-> Len(parts),
                       field |-> bad, rec |-> NoRecord]
                 ELSE [ok |-> TRUE, msg |-> "", got |-> Len(parts), field |-> "",
                       rec |-> [plate |-> plate, date |-> date,
                                checkin |-> int(strip(parts[3])),
                                checkout |-> int(strip(parts[4])),
                                spot_id |-> spot_id,
                                fee |-> int(strip(parts[6]))]]

\* records_after_line with the list rebuilt from the first valid line after a
\* rejected one (a rejected line discards what was read before it)
records_after_line_restarting(recs, line) ==
    IF parse_line(line).ok THEN Append(recs, parse_line(line).rec) ELSE << >>

\* the records list after the loop body ran on `line`
records_after_line(recs, line) ==
    LET r == parse_line(line)
    IN  IF r.ok THEN Append(recs, r.rec) ELSE recs

\* the diagnostics printed so far, after the loop body ran on line number n
diags_after_line(ds, line, n) ==
    LET r == parse_line(line)
    IN  IF r.ok THEN ds
        ELSE Append(ds, [line |-> n, msg |-> r.msg, got |-> r.got, field |-> r.field])

\* what load_dataset returns when the file was read to its end
load_return(recs) == recs

\* what load_dataset returns from its outer except clauses and line 58
load_failed(recs) == << >>

(***************************************************************************)
(* Duration helpers.                                                       *)
(***************************************************************************)
Max2(a, b) == IF a >= b THEN a ELSE b

\* calculate_duration_minutes without the clamp at zero
calculate_duration_minutes_unclamped(checkin, checkout) ==
    ((checkout \div 100) * 60 + (checkout % 100)) - ((checkin \div 100) * 60 + (checkin % 100))

calculate_duration_minutes(checkin, checkout) ==
    LET in_minutes == (checkin \div 100) * 60 + (checkin % 100)
        out_minutes == (checkout \div 100) * 60 + (checkout % 100)
    IN  Max2(0, out_minutes - in_minutes)

\* convert_to_hours_minutes with quotient and remainder swapped
convert_to_hours_minutes_swapped(total_minutes) == <<total_minutes % 60, total_minutes \div 60>>

\* divmod(total_minutes, 60)
convert_to_hours_minutes(total_minutes) == <<total_minutes \div 60, total_minutes % 60>>

(***************************************************************************)
(* The reports.  Each operator gives what the call prints (out) and what   *)
(* the list object it was handed holds afterwards (data).  An input is a   *)
(* sequence: <<text>> for a line typed at the prompt, << >> when input()   *)
(* raises EOFError.                                                        *)
(***************************************************************************)
\* the HH:MM cell of the table, as the pair (hour, minute) that is formatted
hhmm(t) == <<t \div 100, t % 100>>

table_row(record) ==
    [plate |-> record.plate, date |-> record.date, checkin |-> hhmm(record.checkin),
     checkout |-> hhmm(record.checkout), spot_id |-> record.spot_id, fee |-> record.fee]

\* [record for record in data if record['plate'] == plate_input]
RECURSIVE filter_plate(_, _)
filter_plate(data, plate_input) ==
    IF data = << >> THEN << >>
    ELSE (IF Head(data).plate = plate_input THEN <<Head(data)>> ELSE << >>)
         \o filter_plate(Tail(data), plate_input)

\* plate_filter without the upper(): a case-sensitive comparison
plate_filter_case_sensitive(text) == strip(text)

\* input(...).strip().upper() of line 91
plate_filter(text) == upper(strip(text))

\* data_after_plate_history when the unfiltered path reverses filtered_data in
\* place, which is the caller's list under another name
data_after_plate_history_reversed(data, inp) ==
    [i \in 1..Len(data) |-> data[Len(data) + 1 - i]]

\* the list object `data` after licence_plate_history ran: the unfiltered path
\* binds filtered_data to the same list and only iterates over it
data_after_plate_history(data, inp) == data

licence_plate_history(data, inp) ==
    LET unique_plates == sorted_set({data[i].plate : i \in 1..Len(data)})
    IN  IF inp = << >>
        THEN [out |-> [report |-> "licence_plate_history", plates |-> unique_plates,
                       status |-> "error", rows |-> << >>],
              data |-> data]
        ELSE LET plate_input == plate_filter(inp[1])
                 filtered_data == IF plate_input # ""
                                  THEN filter_plate(data, plate_input)
                                  ELSE data
             IN  IF plate_input # "" /\ filtered_data = << >>
                 THEN [out |-> [report |-> "licence_plate_history",
                                plates |-> unique_plates,
                                status |-> "no_records", rows |-> << >>],
                       data |-> data]
                 ELSE [out |-> [report |-> "licence_plate_history",
                                plates |-> unique_plates, status |-> "table",
                                rows |-> [i \in 1..Len(filtered_data) |->
                                            table_row(filtered_data[i])]],
                       data |-> data_after_plate_history(data, inp)]

\* hour_counts after the counting loop: (hour, count) pairs in the order in
\* which the dict first saw each hour
RECURSIVE count_hours(_, _)
count_hours(data, hour_counts) ==
    IF data = << >> THEN hour_counts
    ELSE LET hour == Head(data).checkin \div 100
             at == {i \in 1..Len(hour_counts) : hour_counts[i][1] = hour}
         IN  count_hours(Tail(data),
                 IF at = {} THEN Append(hour_counts, <<hour, 1>>)
                 ELSE [i \in 1..Len(hour_counts) |->
                         IF i \in at THEN <<hour, hour_counts[i][2] + 1>>
                         ELSE hour_counts[i]])

\* insert_by_count of a sort that is not stable: an item goes ahead of the items
\* with its own count
insert_by_count_unstable(sorted_items, item) ==
    LET ahead == {i \in 1..Len(sorted_items) : sorted_items[i][2] > item[2]}
        k == IF ahead = {} THEN 0 ELSE SetMax(ahead)
    IN  SubSeq(sorted_items, 1, k) \o <<item>> \o SubSeq(sorted_items, k + 1, Len(sorted_items))

\* where sorted(..., key=itemgetter(1), reverse=True) puts an item among the
\* items before it: behind every item whose count is at least its own
insert_by_count(sorted_items, item) ==
    LET ahead == {i \in 1..Len(sorted_items) : sorted_items[i][2] >= item[2]}
        k == IF ahead = {} THEN 0 ELSE SetMax(ahead)
    IN  SubSeq(sorted_items, 1, k) \o <<item>> \o SubSeq(sorted_items, k + 1, Len(sorted_items))

\* sorted(hour_counts.items(), key=operator.itemgetter(1), reverse=True)
RECURSIVE sorted_by_count(_, _)
sorted_by_count(items, acc) ==
    IF items = << >> THEN acc
    ELSE sorted_by_count(Tail(items), insert_by_count(acc, Head(items)))

peak_hour_analysis(data) ==
    [out |-> [report |-> "peak_hour_analysis", status |-> "table",
              rows |-> sorted_by_count(count_hours(data, << >>), << >>)],
     data |-> data]

\* sum_fees without the date condition
RECURSIVE sum_fees_every_date(_, _)
sum_fees_every_date(data, selected_date) ==
    IF data = << >> THEN 0
    ELSE Head(data).fee + sum_fees_every_date(Tail(data), selected_date)

\* sum(record['fee'] for record in data if record['date'] == selected_date)
RECURSIVE sum_fees(_, _)
sum_fees(data, selected_date) ==
    IF data = << >> THEN 0
    ELSE (IF Head(data).date = selected_date THEN Head(data).fee ELSE 0)
         + sum_fees(Tail(data), selected_date)

daily_revenue(data, inp) ==
    LET unique_dates == sorted_set({data[i].date : i \in 1..Len(data)})
        say(status, selected, total) ==
            [out |-> [report |-> "daily_revenue", dates |-> unique_dates,
                      status |-> status, selected |-> selected, total |-> total],
             data |-> data]
    IN  IF inp = << >> THEN say("error", "", << >>)
        ELSE LET selection == strip(inp[1])
             IN  IF ~isdigit(selection) THEN say("invalid_input", "", << >>)
                 ELSE LET index == int(selection)
                      IN  IF 1 <= index /\ index <= Len(unique_dates)
                          THEN say("total", unique_dates[index],
                                   <<sum_fees(data, unique_dates[index])>>)
                          ELSE say("invalid_selection", "", << >>)

\* sum(calculate_duration_minutes(...) for record in data)
RECURSIVE sum_durations(_)
sum_durations(data) ==
    IF data = << >> THEN 0
    ELSE calculate_duration_minutes(Head(data).checkin, Head(data).checkout)
         + sum_durations(Tail(data))

avg_stay_duration(data) ==
    IF data = << >>
    THEN [out |-> [report |-> "avg_stay_duration", status |-> "no_data", average |-> << >>],
          data |-> data]
    ELSE LET total_minutes == sum_durations(data)
             average_minutes == total_minutes \div Len(data)
         IN  [out |-> [report |-> "avg_stay_duration", status |-> "average",
                       average |-> convert_to_hours_minutes(average_minutes)],
              data |-> data]

(***************************************************************************)
(* main: what it does with the list load_dataset returned (lines 209-213)  *)
(* and how it dispatches a menu choice (lines 219-231).                    *)
(***************************************************************************)
\* main without the check of lines 209-211
main_after_load_unchecked(ds) == "Loaded"

main_after_load(ds) == IF ds = << >> THEN "Terminated" ELSE "Loaded"

menu_branch(c) ==
    IF c = "1" THEN "licence_plate_history"
    ELSE IF c = "2" THEN "peak_hour_analysis"
    ELSE IF c = "3" THEN "daily_revenue"
    ELSE IF c = "4" THEN "avg_stay_duration"
    ELSE IF c = "5" THEN "exit"
    ELSE "invalid"

(***************************************************************************)
(* Inputs of the model.                                                    *)
(***************************************************************************)
SeqsUpTo(S, n) == UNION {[1..k -> S] : k \in 0..n}

\* lines a dataset file may hold: valid ones (plain; padded with blanks, in
\* lower case and with a date that is not zero-padded; with a checkout before
\* the check-in; with signed and underscored numbers and empty identifiers)
\* and malformed ones (calendar, number, field count, blank line, both)
Lines ==
    { "AB12|2024/01/10|900|1030|A1|10\n",
      " ab12 |2024/1/5| 1000 |1100| a1 |20\n",
      "CD34|2024/01/10|1400|1300|B2|5\n",
      "|2024/02/29|+1_0|-5||0",
      "CD34|2024/02/30|900|1000|B2|5\n",
      "AB12|2024/01/10|9x|1000|A1|5\n",
      "AB12|2024/01/10|900|1000|A1\n",
      "\n",
      "EF56|24/01/10|900|1000|A1|5.5\n" }

\* the file behind the name typed at the first prompt.  "missing" makes open()
\* raise FileNotFoundError, "denied" another OSError, and "undecodable" makes the
\* iteration over the file raise UnicodeDecodeError at some point
Files ==
    {[status |-> st, lines |-> << >>] : st \in {"missing", "denied"}}
    \cup {[status |-> st, lines |-> ls] :
            st \in {"ok", "undecodable"}, ls \in SeqsUpTo(Lines, MaxLines)}

\* what may be typed at the menu prompt
ChoiceInputs == {"1", " 2", "3\n", "4", " 5 ", "", "7", "x", "12"}

\* what may be typed at the licence-plate prompt
PlateInputs == {"", "  ", "ab12", " Cd34 ", "ZZ99"}

\* what may be typed at the date-number prompt
SelectionInputs == {"1", " 2 ", "02", "0", "3", "9", "+1", "-1", "x", ""}

Typed(S) == {<<t>> : t \in S} \cup {<< >>}

\* record lists handed directly to a report: records the loader produces
UnitLines ==
    { "AB12|2024/01/01|900|1030|A1|10",
      "ab12|2024/01/01|900|1000|A1|20",
      "CD34|2024/01/01|1400|1300|B2|5",
      "CD34|2024/01/02|1405|1500|B2|100",
      "|2024/1/5|0|2359||-5",
      "EF56|2023/12/31|2330|15|C3|0" }

UnitRecords == {parse_line(l).rec : l \in {u \in UnitLines : parse_line(u).ok}}

\* arguments handed directly to the duration helpers
MaxClock == 60

ClockArgs == (-MaxClock..MaxClock) \cup {99, 100, 101, 800, 900, 1030, 2359, 2400}

MinuteArgs == 0..(2 * MaxClock) \cup {125}

(***************************************************************************)
(* State.                                                                  *)
(***************************************************************************)
VARIABLES
    file,         \* the file behind the typed name: [status, lines]
    pc,           \* where main is: AwaitingFilename, Loading, Loaded, Exited,
                  \*   Terminated (empty load), Fatal (EOFError); Unit and Returned for direct calls
    line_number,  \* load_dataset's line counter
    records,      \* load_dataset's list
    diags,        \* the diagnostics load_dataset printed, in order
    dataset,      \* main's list (the data argument of a direct call)
    choice,       \* the menu choice last read, stripped
    out,          \* what the last call or menu step printed
    typed,        \* what was typed at the report's own prompt in the last step:
                  \*   <<text>>, or << >> (no prompt, or input() raised EOFError)
    args          \* the arguments of a direct call of a duration helper

vars == <<file, pc, line_number, records, diags, dataset, choice, out, typed, args>>

NoOutput == [report |-> "", status |-> ""]

Init ==
    /\ file \in Files
    /\ pc = "AwaitingFilename"
    /\ line_number = 0
    /\ records = << >>
    /\ diags = << >>
    /\ dataset = << >>
    /\ choice = ""
    /\ out = NoOutput
    /\ typed = << >>
    /\ args = << >>

\* main: input() for the filename raises EOFError
FilenameEOF ==
    /\ pc = "AwaitingFilename"
    /\ pc' = "Fatal"
    /\ out' = [report |-> "main", status |-> "fatal"]
    /\ UNCHANGED <<file, line_number, records, diags, dataset, choice, args, typed>>

\* main reads the filename and load_dataset opens the file
OpenFile ==
    /\ pc = "AwaitingFilename"
    /\ IF file.status \in {"missing", "denied"}
       THEN /\ diags' = <<[line |-> 0,
                           msg |-> IF file.status = "missing"
                                   THEN "Error: File not found."
                                   ELSE "Unexpected error while loading dataset",
                           got |-> 0, field |-> ""]>>
            /\ dataset' = load_failed(records)
            /\ pc' = main_after_load(dataset')
            /\ out' = [report |-> "main", status |-> "no_valid_records"]
            /\ UNCHANGED <<line_number, records, args>>
       ELSE /\ pc' = "Loading"
            /\ line_number' = 0
            /\ records' = << >>
            /\ UNCHANGED <<diags, dataset, out, args>>
    /\ UNCHANGED <<file, choice, args, typed>>

\* load_dataset: one pass of the for loop
LoadLine ==
    /\ pc = "Loading"
    /\ line_number < Len(file.lines)
    /\ line_number' = line_number + 1
    /\ records' = records_after_line(records, file.lines[line_number'])
    /\ diags' = diags_after_line(diags, file.lines[line_number'], line_number')
    /\ UNCHANGED <<file, pc, dataset, choice, out, args, typed>>

\* what main prints once load_dataset returned ds
loaded_output(ds) ==
    IF ds = << >> THEN [report |-> "main", status |-> "no_valid_records"]
    ELSE [report |-> "main", status |-> "loaded"]

\* load_dataset: the file is exhausted, the list is returned to main
LoadReturn ==
    /\ pc = "Loading"
    /\ file.status = "ok"
    /\ line_number = Len(file.lines)
    /\ dataset' = load_return(records)
    /\ pc' = main_after_load(dataset')
    /\ out' = loaded_output(dataset')
    /\ UNCHANGED <<file, line_number, records, diags, choice, args, typed>>

\* load_dataset: reading the file raises (the decoder works ahead of the loop,
\* so this may happen before any of the lines, or after some or all of them)
LoadFail ==
    /\ pc = "Loading"
    /\ file.status = "undecodable"
    /\ diags' = Append(diags, [line |-> 0, msg |-> "Unexpected error while loading dataset",
                               got |-> 0, field |-> ""])
    /\ dataset' = load_failed(records)
    /\ pc' = main_after_load(dataset')
    /\ out' = loaded_output(dataset')
    /\ UNCHANGED <<file, line_number, records, choice, args, typed>>

\* the calls of the four reports on main's list
RunPlateHistory(inp) ==
    LET r == licence_plate_history(dataset, inp)
    IN  out' = r.out /\ dataset' = r.data /\ typed' = inp

RunPeakHour ==
    LET r == peak_hour_analysis(dataset)
    IN  out' = r.out /\ dataset' = r.data /\ typed' = << >>

RunDailyRevenue(inp) ==
    LET r == daily_revenue(dataset, inp)
    IN  out' = r.out /\ dataset' = r.data /\ typed' = inp

RunAvgStay ==
    LET r == avg_stay_duration(dataset)
    IN  out' = r.out /\ dataset' = r.data /\ typed' = << >>

\* main: one pass of the menu loop, by the branch the stripped choice takes
MenuPlateHistory ==
    /\ pc = "Loaded"
    /\ \E raw \in ChoiceInputs :
          /\ menu_branch(strip(raw)) = "licence_plate_history"
          /\ choice' = strip(raw)
          /\ \E inp \in Typed(PlateInputs) : RunPlateHistory(inp)
    /\ UNCHANGED <<file, pc, line_number, records, diags, args>>

MenuPeakHour ==
    /\ pc = "Loaded"
    /\ \E raw \in ChoiceInputs :
          /\ menu_branch(strip(raw)) = "peak_hour_analysis"
          /\ choice' = strip(raw)
          /\ RunPeakHour
    /\ UNCHANGED <<file, pc, line_number, records, diags, args>>

MenuDailyRevenue ==
    /\ pc = "Loaded"
    /\ \E raw \in ChoiceInputs :
          /\ menu_branch(strip(raw)) = "daily_revenue"
          /\ choice' = strip(raw)
          /\ \E inp \in Typed(SelectionInputs) : RunDailyRevenue(inp)
    /\ UNCHANGED <<file, pc, line_number, records, diags, args>>

MenuAvgStay ==
    /\ pc = "Loaded"
    /\ \E raw \in ChoiceInputs :
          /\ menu_branch(strip(raw)) = "avg_stay_duration"
          /\ choice' = strip(raw)
          /\ RunAvgStay
    /\ UNCHANGED <<file, pc, line_number, records, diags, args>>

MenuExit ==
    /\ pc = "Loaded"
    /\ \E raw \in ChoiceInputs :
          /\ menu_branch(strip(raw)) = "exit"
          /\ choice' = strip(raw)
    /\ pc' = "Exited"
    /\ out' = [report |-> "main", status |-> "exiting"]
    /\ typed' = << >>
    /\ UNCHANGED <<file, line_number, records, diags, dataset, args>>

MenuInvalid ==
    /\ pc = "Loaded"
    /\ \E raw \in ChoiceInputs :
          /\ menu_branch(strip(raw)) = "invalid"
          /\ choice' = strip(raw)
    /\ out' = [report |-> "main", status |-> "invalid_selection"]
    /\ typed' = << >>
    /\ UNCHANGED <<file, pc, line_number, records, diags, dataset, args>>

\* main: input() for the menu choice raises EOFError
MenuEOF ==
    /\ pc = "Loaded"
    /\ pc' = "Fatal"
    /\ out' = [report |-> "main", status |-> "fatal"]
    /\ typed' = << >>
    /\ UNCHANGED <<file, line_number, records, diags, dataset, choice, args>>

Next ==
    \/ FilenameEOF
    \/ OpenFile
    \/ LoadLine
    \/ LoadReturn
    \/ LoadFail
    \/ MenuPlateHistory
    \/ MenuPeakHour
    \/ MenuDailyRevenue
    \/ MenuAvgStay
    \/ MenuExit
    \/ MenuInvalid
    \/ MenuEOF

Spec == Init /\ [][Next]_vars

(***************************************************************************)
(* The reports called directly on a record list.                           *)
(***************************************************************************)
InitReports ==
    /\ file = [status |-> "ok", lines |-> << >>]
    /\ pc = "Unit"
    /\ line_number = 0
    /\ records = << >>
    /\ diags = << >>
    /\ dataset \in SeqsUpTo(UnitRecords, MaxRecs)
    /\ choice = ""
    /\ out = NoOutput
    /\ typed = << >>
    /\ args = << >>

CallPlateHistory ==
    /\ pc = "Unit"
    /\ \E inp \in Typed(PlateInputs) : RunPlateHistory(inp)
    /\ pc' = "Returned"
    /\ UNCHANGED <<file, line_number, records, diags, choice, args>>

CallPeakHour ==
    /\ pc = "Unit"
    /\ RunPeakHour
    /\ pc' = "Returned"
    /\ UNCHANGED <<file, line_number, records, diags, choice, args>>

CallDailyRevenue ==
    /\ pc = "Unit"
    /\ \E inp \in Typed(SelectionInputs) : RunDailyRevenue(inp)
    /\ pc' = "Returned"
    /\ UNCHANGED <<file, line_number, records, diags, choice, args>>

CallAvgStay ==
    /\ pc = "Unit"
    /\ RunAvgStay
    /\ pc' = "Returned"
    /\ UNCHANGED <<file, line_number, records, diags, choice, args>>

NextReports ==
    \/ CallPlateHistory
    \/ CallPeakHour
    \/ CallDailyRevenue
    \/ CallAvgStay

SpecReports == InitReports /\ [][NextReports]_vars

(***************************************************************************)
(* The duration helpers called directly.                                   *)
(***************************************************************************)
InitDuration ==
    /\ file = [status |-> "ok", lines |-> << >>]
    /\ pc = "Unit"
    /\ line_number = 0
    /\ records = << >>
    /\ diags = << >>
    /\ dataset = << >>
    /\ choice = ""
    /\ out = NoOutput
    /\ typed = << >>
    /\ args \in (ClockArgs \X ClockArgs) \cup {<<t>> : t \in MinuteArgs}

CallDuration ==
    /\ pc = "Unit"
    /\ Len(args) = 2
    /\ out' = [report |-> "calculate_duration_minutes", status |-> "returned",
               result |-> calculate_duration_minutes(args[1], args[2])]
    /\ pc' = "Returned"
    /\ UNCHANGED <<file, line_number, records, diags, dataset, choice, args, typed>>

CallConvert ==
    /\ pc = "Unit"
    /\ Len(args) = 1
    /\ out' = [report |-> "convert_to_hours_minutes", status |-> "returned",
               result |-> convert_to_hours_minutes(args[1])]
    /\ pc' = "Returned"
    /\ UNCHANGED <<file, line_number, records, diags, dataset, choice, args, typed>>

NextDuration ==
    \/ CallDuration
    \/ CallConvert

SpecDuration == InitDuration /\ [][NextDuration]_vars

(***************************************************************************)
(* Properties.                                                             *)
(***************************************************************************)
\* the k-th smallest element of a set of numbers
NthOf(S, k) == CHOOSE x \in S : Cardinality({y \in S : y < x}) = k - 1

\* a line is malformed: its field count is not 6, its date does not parse as a
\* calendar date, or its checkin, checkout or fee is not an integer
Malformed(line) ==
    LET f == split(strip(line), "|")
    IN  \/ Len(f) # 6
        \/ ~strptime_ok(strip(f[2]))
        \/ ~int_ok(f[3])
        \/ ~int_ok(f[4])
        \/ ~int_ok(f[6])

\* load_dataset has just returned to main from a file that could be read
JustLoaded ==
    /\ file.status = "ok"
    /\ pc \in {"Loaded", "Terminated"}
    /\ out.report = "main"
    /\ out.status \in {"loaded", "no_valid_records"}

\* C1: on a readable file of N lines of which M are malformed, load_dataset
\* returns exactly N - M records, the records of the well-formed lines in file
\* order, and prints exactly one diagnostic per malformed line, in file order,
\* each naming that line's 1-based number in the file.
C1_SkipSemantics ==
    JustLoaded =>
        LET N == Len(file.lines)
            bad == {i \in 1..N : Malformed(file.lines[i])}
            good == (1..N) \ bad
            M == Cardinality(bad)
        IN  /\ Len(dataset) = N - M
            /\ \A k \in 1..(N - M) : dataset[k] = parse_line(file.lines[NthOf(good, k)]).rec
            /\ Len(diags) = M
            /\ \A k \in 1..M : diags[k].line = NthOf(bad, k)

\* C1 witness: a two-line file whose first line is malformed was loaded; the
\* one record is that of line 2 and the one diagnostic names line 1
C1_Witness ==
    /\ JustLoaded
    /\ Len(file.lines) = 2
    /\ Malformed(file.lines[1])
    /\ ~Malformed(file.lines[2])
    /\ Len(dataset) = 1
    /\ Len(diags) = 1
    /\ diags[1].line = 1

\* minutes since midnight of an HHMM integer
DecodedMinutes(t) == (t \div 100) * 60 + (t % 100)

\* C2: calculate_duration_minutes(checkin, checkout) is the decoded checkout
\* minus the decoded checkin when that is positive and 0 otherwise; it is never
\* negative, and (900, 1030) gives 90.
C2_DurationClamped ==
    (pc = "Returned" /\ out.report = "calculate_duration_minutes") =>
        LET diff == DecodedMinutes(args[2]) - DecodedMinutes(args[1])
        IN  /\ out.result >= 0
            /\ diff <= 0 => out.result = 0
            /\ diff > 0 => out.result = diff
            /\ args = <<900, 1030>> => out.result = 90

\* C2 witness: the call (900, 1030) returned 90
C2_Witness ==
    /\ pc = "Returned"
    /\ out.report = "calculate_duration_minutes"
    /\ args = <<900, 1030>>
    /\ out.result = 90

\* the sum of fee over the records at the positions in I
RECURSIVE FeeSumAt(_)
FeeSumAt(I) ==
    IF I = {} THEN 0
    ELSE LET i == CHOOSE j \in I : TRUE
         IN  dataset[i].fee + FeeSumAt(I \ {i})

\* the numbered list daily_revenue printed: the distinct dates, ascending as strings
DateListPrinted ==
    /\ Range(out.dates) = {dataset[i].date : i \in 1..Len(dataset)}
    /\ \A i, j \in 1..Len(out.dates) : i < j => StrLess(out.dates[i], out.dates[j])

\* C3 as stated: daily_revenue reports a total if and only if what was entered
\* is a well-formed integer k (one int() accepts, as for the fields of the file)
\* with 1 <= k <= count of distinct dates.
C3_TotalIffInteger ==
    out.report = "daily_revenue" =>
        ((out.status = "total") <=>
            (/\ typed # << >>
             /\ int_ok(typed[1])
             /\ 1 <= int(typed[1])
             /\ int(typed[1]) <= Len(out.dates)))

\* C3 amended: daily_revenue reports a total if and only if the entered
\* selection, trimmed, is a non-empty string of decimal digits only (no sign, no
\* underscore) whose value k has 1 <= k <= count of distinct dates; the total is
\* then the sum of fee over exactly the records dated as the k-th entry of the
\* sorted distinct-date list; in every other case a rejection is printed, no
\* total is computed, and main stays in its menu loop.
C3_TotalIffDigits ==
    out.report = "daily_revenue" =>
        LET digits == typed # << >> /\ isdigit(strip(typed[1]))
            k == DigitsValue(strip(typed[1]), 0)
        IN  /\ DateListPrinted
            /\ (out.status = "total") <=> (digits /\ 1 <= k /\ k <= Len(out.dates))
            /\ out.status = "total" =>
                  /\ out.selected = out.dates[k]
                  /\ out.total = <<FeeSumAt({i \in 1..Len(dataset) :
                                               dataset[i].date = out.dates[k]})>>
            /\ out.status # "total" =>
                  /\ out.status \in {"invalid_input", "invalid_selection", "error"}
                  /\ out.total = << >>
            /\ pc = "Loaded"

\* C3 witness: two records of one date and fees 10 and 5 were loaded, the
\* selection chose their date and the total printed is 15
C3_Witness ==
    /\ out.report = "daily_revenue"
    /\ out.status = "total"
    /\ Len(dataset) = 2
    /\ dataset[1].date = dataset[2].date
    /\ dataset[1].fee = 10
    /\ dataset[2].fee = 5
    /\ out.total = <<15>>
    /\ pc = "Loaded"

\* a table row shows the fields of a record, the times as HH:MM
RowShows(row, rec) ==
    /\ row.plate = rec.plate
    /\ row.date = rec.date
    /\ row.checkin = <<rec.checkin \div 100, rec.checkin % 100>>
    /\ row.checkout = <<rec.checkout \div 100, rec.checkout % 100>>
    /\ row.spot_id = rec.spot_id
    /\ row.fee = rec.fee

\* what licence_plate_history printed when `filtering` says a filter was given:
\* with a filter, the records whose plate is the trimmed, uppercased input, in
\* file order, or the no-records message alone when there is none; without a
\* filter, every record in file order
PlateHistoryPrinted(filtering) ==
    LET wanted == upper(strip(typed[1]))
        match == {i \in 1..Len(dataset) : dataset[i].plate = wanted}
    IN  IF filtering
        THEN IF match = {}
             THEN out.status = "no_records" /\ out.rows = << >>
             ELSE /\ out.status = "table"
                  /\ Len(out.rows) = Cardinality(match)
                  /\ \A k \in 1..Cardinality(match) :
                        RowShows(out.rows[k], dataset[NthOf(match, k)])
        ELSE /\ out.status = "table"
             /\ Len(out.rows) = Len(dataset)
             /\ \A k \in 1..Len(dataset) : RowShows(out.rows[k], dataset[k])

\* C4 as stated: a non-empty filter input selects the records whose plate is the
\* trimmed, uppercased input (or the no-records message), an empty input lists
\* every record.
C4_FilterWhenInputNonEmpty ==
    (out.report = "licence_plate_history" /\ typed # << >>) =>
        PlateHistoryPrinted(typed[1] # "")

\* C4 amended: an input that is non-empty after trimming selects the records
\* whose plate is the trimmed, uppercased input, in file order (or the
\* no-records message and no table when there is none); an input that is empty
\* after trimming (empty or blanks only) lists every record in file order.
C4_FilterWhenTrimmedNonEmpty ==
    (out.report = "licence_plate_history" /\ typed # << >>) =>
        PlateHistoryPrinted(strip(typed[1]) # "")

\* C4 witness: records of AB12 and CD34 were loaded and "ab12" in lower case
\* selected the AB12 record alone
C4_Witness ==
    /\ pc = "Loaded"
    /\ out.report = "licence_plate_history"
    /\ typed = <<"ab12">>
    /\ Len(dataset) = 2
    /\ dataset[1].plate = "CD34"
    /\ dataset[2].plate = "AB12"
    /\ out.status = "table"
    /\ Len(out.rows) = 1
    /\ out.rows[1].plate = "AB12"

\* the position of the first record whose check-in hour is h
FirstWithHour(h) == SetMin({i \in 1..Len(dataset) : dataset[i].checkin \div 100 = h})

\* C5: peak_hour_analysis prints one row per distinct check-in hour
\* (checkin // 100) with the number of records of that hour, by count
\* descending, hours of equal count in the order of their first occurrence.
C5_PeakHourRanking ==
    out.report = "peak_hour_analysis" =>
        LET rows == out.rows
            hours == {dataset[i].checkin \div 100 : i \in 1..Len(dataset)}
        IN  /\ Len(rows) = Cardinality(hours)
            /\ {rows[k][1] : k \in 1..Len(rows)} = hours
            /\ \A k \in 1..Len(rows) :
                  rows[k][2] = Cardinality({i \in 1..Len(dataset) :
                                              dataset[i].checkin \div 100 = rows[k][1]})
            /\ \A k, l \in 1..Len(rows) : k < l =>
                  \/ rows[k][2] > rows[l][2]
                  \/ /\ rows[k][2] = rows[l][2]
                     /\ FirstWithHour(rows[k][1]) < FirstWithHour(rows[l][1])

\* C5 witness: records of hours 14, 9, 0, 9 in that order gave the rows 9 (2),
\* then 14 and 0 (1 each) in the order of their first occurrence
C5_Witness ==
    /\ out.report = "peak_hour_analysis"
    /\ Len(dataset) = 4
    /\ dataset[1].checkin \div 100 = 14
    /\ dataset[3].checkin \div 100 = 0
    /\ out.rows = << <<9, 2>>, <<14, 1>>, <<0, 1>> >>

\* the sum of calculate_duration_minutes over the records at the positions in I
RECURSIVE DurationSumAt(_)
DurationSumAt(I) ==
    IF I = {} THEN 0
    ELSE LET i == CHOOSE j \in I : TRUE
         IN  calculate_duration_minutes(dataset[i].checkin, dataset[i].checkout)
             + DurationSumAt(I \ {i})

\* C6: avg_stay_duration on an empty list reports "no data" and no average; on
\* a non-empty one it reports (h, m) with 0 <= m < 60 and h * 60 + m the floor
\* of the sum of the durations divided by the number of records.
C6_AverageStay ==
    out.report = "avg_stay_duration" =>
        IF dataset = << >>
        THEN out.status = "no_data" /\ out.average = << >>
        ELSE LET total == DurationSumAt(1..Len(dataset))
                 n == Len(dataset)
                 avg == out.average[1] * 60 + out.average[2]
             IN  /\ out.status = "average"
                 /\ Len(out.average) = 2
                 /\ 0 <= out.average[2] /\ out.average[2] < 60
                 /\ avg * n <= total
                 /\ total < (avg + 1) * n

\* C6 witness: two records of durations 90 and 60 gave 1 hour 15 minutes
C6_Witness ==
    /\ out.report = "avg_stay_duration"
    /\ Len(dataset) = 2
    /\ calculate_duration_minutes(dataset[1].checkin, dataset[1].checkout) = 90
    /\ calculate_duration_minutes(dataset[2].checkin, dataset[2].checkout) = 60
    /\ out.average = <<1, 15>>

\* C7: main enters Loaded only from a load that returned a non-empty list; a
\* missing file or a load without a valid line ends the program with nothing
\* after it; in Loaded the choices 1 to 4 run exactly the matching report and
\* stay in Loaded, any other choice but 5 prints the diagnostic and stays in
\* Loaded, and Exited is entered only from Loaded on choice 5.
C7_MenuStateMachine ==
    [][ /\ (pc # "Loaded" /\ pc' = "Loaded") =>
              (pc = "Loading" /\ dataset' # << >> /\ dataset' = records)
        /\ (pc \in {"AwaitingFilename", "Loading"} /\ pc' \notin {"Loading", "Fatal"}
              /\ dataset' = << >>) =>
              (pc' = "Terminated" /\ choice' = "" /\ out'.report = "main")
        /\ pc \notin {"Terminated", "Exited", "Fatal"}
        /\ (pc = "Loaded" /\ pc' = "Loaded") =>
              \/ /\ choice' \in {"1", "2", "3", "4"}
                 /\ out'.report = menu_branch(choice')
                 /\ out'.report = IF choice' = "1" THEN "licence_plate_history"
                                  ELSE IF choice' = "2" THEN "peak_hour_analysis"
                                  ELSE IF choice' = "3" THEN "daily_revenue"
                                  ELSE "avg_stay_duration"
              \/ /\ choice' \notin {"1", "2", "3", "4", "5"}
                 /\ out' = [report |-> "main", status |-> "invalid_selection"]
        /\ pc' = "Exited" => (pc = "Loaded" /\ choice' = "5")
      ]_vars

\* C7 witness: after a load of two records and a report, choice 5 ended the
\* program in Exited
C7_Witness ==
    /\ pc = "Exited"
    /\ choice = "5"
    /\ Len(dataset) = 2
    /\ out = [report |-> "main", status |-> "exiting"]

\* chronological order of two date strings the loader accepted
DateNotAfter(a, b) ==
    LET x == DateTriple(a)
        y == DateTriple(b)
    IN  \/ x[1] < y[1]
        \/ x[1] = y[1] /\ x[2] < y[2]
        \/ x[1] = y[1] /\ x[2] = y[2] /\ x[3] <= y[3]

\* C8 as stated: the numbered date list daily_revenue builds is in
\* chronological order, for every record list the loader produced.
C8_DateListChronological ==
    (pc = "Loaded" /\ out.report = "daily_revenue") =>
        \A i, j \in 1..Len(out.dates) : i < j => DateNotAfter(out.dates[i], out.dates[j])

\* C9: from the return of load_dataset to the end of the program, main's list
\* is the list load_dataset built: same length, same order, same fields.
C9_DatasetUnchanged ==
    pc \in {"Loaded", "Exited", "Fatal"} => dataset = records

\* C9 witness: two records were loaded and the unfiltered plate history (empty
\* input), which works on the list itself, printed both
C9_Witness ==
    /\ pc = "Loaded"
    /\ out.report = "licence_plate_history"
    /\ typed = <<"">>
    /\ out.status = "table"
    /\ Len(out.rows) = 2
    /\ Len(dataset) = 2
    /\ dataset[1] # dataset[2]

\* C10: every record of load_dataset's list comes from a line already read
\* that has exactly 6 fields, a date that parses and integer checkin, checkout
\* and fee; its plate and spot_id are trimmed and uppercased; and the list has
\* no more records than such lines were read.
C10_RecordsValidated ==
    /\ \A i \in 1..Len(records) :
          LET r == records[i]
          IN  /\ r.plate = upper(strip(r.plate))
              /\ r.spot_id = upper(strip(r.spot_id))
              /\ strptime_ok(r.date)
              /\ r.checkin \in Int /\ r.checkout \in Int /\ r.fee \in Int
              /\ \E j \in 1..line_number :
                    LET f == split(strip(file.lines[j]), "|")
                    IN  /\ Len(f) = 6
                        /\ strptime_ok(strip(f[2]))
                        /\ int_ok(f[3]) /\ int_ok(f[4]) /\ int_ok(f[6])
                        /\ r.plate = upper(strip(f[1]))
                        /\ r.date = strip(f[2])
                        /\ r.checkin = int(f[3])
                        /\ r.checkout = int(f[4])
                        /\ r.spot_id = upper(strip(f[5]))
                        /\ r.fee = int(f[6])
    /\ Len(records) = Cardinality({j \in 1..line_number : ~Malformed(file.lines[j])})
    /\ \A i \in 1..Len(dataset) : dataset[i] \in Range(records)

\* C10 witness: a line with a date that is no calendar date was skipped and the
\* blank-padded lower-case line after it gave a record with plate AB12, spot A1
C10_Witness ==
    /\ pc = "Loading"
    /\ line_number = 2
    /\ Len(diags) = 1
    /\ diags[1].field = "date"
    /\ Len(records) = 1
    /\ records[1].plate = "AB12"
    /\ records[1].spot_id = "A1"
    /\ records[1].checkin = 1000
    /\ file.lines[2] = " ab12 |2024/1/5| 1000 |1100| a1 |20\n"

====
